---------------------------- MODULE Spec2Model ----------------------------
(***************************************************************************)
(* A state-machine model of the three whale-tracker programs of the        *)
(* repository:                                                             *)
(*   polymarket.py  REST poll loop with a process-lifetime `seen` set      *)
(*   main.py        subgraph dashboard (fetch_whale_trades, track_whales)  *)
(*   goldsky.py     subgraph dashboard with RPC fallback and alerts        *)
(*                                                                         *)
(* Money.  Python floats are modelled as exact fixed-point values          *)
(* [usd, micro] standing for usd + micro / 10^6 dollars (TLC integers are  *)
(* 32 bits wide, a raw USDC amount such as 60000000000 is not).  A raw     *)
(* integer amount is the pair [hi, lo] standing for hi * 10^6 + lo.        *)
(* Floating point rounding is not modelled.                                *)
(*                                                                         *)
(* Environment.  An upstream answers a query with any batch of records or  *)
(* raises; a record may lack a key; a Telegram POST may raise; the user    *)
(* may press Ctrl-C at any position.  console.print, the rich table and a  *)
(* returned markets list are taken not to raise.                           *)
(***************************************************************************)
EXTENDS Integers, Sequences, FiniteSets, TLC

VARIABLES
    prog,          \* which program runs: "polymarket", "main" or "goldsky"
    token,         \* goldsky.TELEGRAM_TOKEN as deployed
    now,           \* time.time() when track_whales is defined, in epoch seconds
    since,         \* dashboards: the default of the `since` parameter
    pc,            \* position of the program
    status,        \* "running", "stopped", "interrupted" or "crashed"
    failure,       \* the failure the environment injected last ("none" if none)
    sigint,        \* a KeyboardInterrupt has been delivered
    notice,        \* the stop notice has been printed
    seen,          \* polymarket.main: seen
    seenBefore,    \* polymarket.main: seen as the running cycle's fetch found it
    trades,        \* the batch in hand (trades / result['trades'] / trades_list)
    source,        \* where the batch in hand came from
    idx,           \* polymarket.main: position of the for loop in trades
    printed,       \* polymarket: transactionHash of every print_trade, in order
    cyclePrinted,  \* polymarket: the print_trade calls of the running cycle
    unchanged,     \* polymarket: the batch in hand equals the previous cycle's
    completed,     \* polymarket: a cycle has completed
    whale_trades,  \* dashboards: whale_trades / whales of the last update
    table,         \* dashboards: rows of the table handed to Live
    placeholder,   \* dashboards: the table holds the placeholder row
    rendered,      \* dashboards: update_display returned and Live shows it
    alerts,        \* dashboards: alert lines printed on the console
    sent,          \* goldsky: Telegram POSTs attempted
    top_markets,   \* goldsky: top_markets is not empty
    footer,        \* goldsky: the top-markets line was printed
    primaryFails,  \* goldsky: subgraph queries that raised
    rpcCalls,      \* goldsky: calls of rpc_fallback_trades
    secondary,     \* goldsky: the last rpc_fallback_trades: "unused", "ok", "failed"
    lastProbe,     \* goldsky: the last introspection probe: "none" or its outcome
    readable       \* goldsky: the whale-sized events that decode, of the range
                   \* scanned for the batch in hand, in log order

vars == <<prog, token, now, since, pc, status, failure, sigint, notice, seen,
          seenBefore, trades, source, idx, printed, cyclePrinted, unchanged, completed,
          whale_trades, table, placeholder, rendered, alerts, sent, top_markets, footer,
          primaryFails, rpcCalls, secondary, lastProbe, readable>>

cfgVars == <<prog, token, now, since>>

restVars == <<seen, seenBefore, idx, printed, cyclePrinted, unchanged, completed>>

dashVars == <<whale_trades, table, placeholder, rendered, alerts, sent, top_markets, footer>>

routeVars == <<source, primaryFails, rpcCalls, secondary, lastProbe, readable>>

(***************************************************************************)
(* Bounds of the model.                                                    *)
(***************************************************************************)
MaxBatch == 2
MaxFail == 2

(***************************************************************************)
(* Program constants.                                                      *)
(***************************************************************************)
THRESHOLD_USD == 7500
\* goldsky.py line 18 and main.py line 14
WHALE_THRESHOLD_USD == 50000
ALERT_THRESHOLD_USD == 100000
MAIN_ALERT_USD == 100000
MAX_ROWS == 10
\* the default lookback of track_whales, in seconds
GOLDSKY_LOOKBACK == 86400
MAIN_LOOKBACK == 3600

(***************************************************************************)
(* Fixed-point values.                                                     *)
(***************************************************************************)
Val(u, m) == [usd |-> u, micro |-> m]

\* v >= t, t a whole number of dollars
ValGeq(v, t) == v.usd >= t

\* v > t, t a whole number of dollars
ValGt(v, t) == v.usd > t \/ (v.usd = t /\ v.micro > 0)

\* a > b
ValGreater(a, b) == a.usd > b.usd \/ (a.usd = b.usd /\ a.micro > b.micro)

\* the raw integer hi * 10^6 + lo divided by 1e8, an 8-decimal scale
FromRaw_scale8(raw) == Val(raw.hi \div 100, (raw.hi % 100) * 10000 + raw.lo \div 100)

\* float(raw) / 1e6 for the raw integer hi * 10^6 + lo
FromRaw(raw) == Val(raw.hi, raw.lo)

\* str(int(size_usd * 1e6))
ToRaw(v) == [hi |-> v.usd, lo |-> v.micro]

\* float(price) * float(size), price in thousandths
Notional(price, size) ==
    LET m == price * size
    IN  Val(m \div 1000, (m % 1000) * 1000)

Min(a, b) == IF a <= b THEN a ELSE b

SeqsUpTo(S, n) == UNION {[1..k -> S] : k \in 0..n}

Pad(x, k) == [i \in 1..k |-> x]

(***************************************************************************)
(* What the upstreams may answer.                                          *)
(***************************************************************************)
\* REST records: transactionHash, price (thousandths), size, and the key the
\* record lacks ("none" for a well-formed record).
RestRecord(tx, p, s, m) == [transactionHash |-> tx, price |-> p, size |-> s, missing |-> m]

RestQuotes == {<<500, 20000>>, <<750, 10000>>, <<500, 14999>>}

RestRecords ==
    {RestRecord("0xabc", q[1], q[2], "none") : q \in RestQuotes}
    \cup {RestRecord("0xdef", 500, 20000, "none")}
    \cup {RestRecord("0xabc", 500, 20000, m) : m \in {"transactionHash", "price", "side"}}

RestBatches == SeqsUpTo(RestRecords, MaxBatch)

(***************************************************************************)
(* polymarket.py                                                           *)
(***************************************************************************)
\* the membership test of line 50 left out
already_seen_never(tx, s) == FALSE

\* line 50: tx in seen
already_seen(tx, s) == tx \in s

\* line 52 written as an assignment that forgets the ids seen before
seen_add_forgets(tx, s) == {tx}

\* line 52: seen.add(tx)
seen_add(tx, s) == s \cup {tx}

\* line 55 with > for >=
rest_qualifies_strict(t) == ValGt(Notional(t.price, t.size), THRESHOLD_USD)

\* line 55: usd_value >= THRESHOLD_USD
rest_qualifies(t) == ValGeq(Notional(t.price, t.size), THRESHOLD_USD)

Crash(why) ==
    /\ status' = "crashed"
    /\ failure' = why

\* line 47: trades = fetch_trades(100); the request, raise_for_status or
\* resp.json() may raise, and main has no handler.
fetch_trades ==
    /\ prog = "polymarket" /\ status = "running" /\ pc = "fetch"
    /\ \/ \E batch \in RestBatches :
             /\ trades' = batch
             /\ seenBefore' = seen
             /\ unchanged' = (completed /\ batch = trades)
             /\ idx' = 1
             /\ cyclePrinted' = <<>>
             /\ pc' = "for"
             /\ UNCHANGED <<status, failure>>
       \/ /\ Crash("upstream")
          /\ UNCHANGED <<trades, seenBefore, unchanged, idx, cyclePrinted, pc>>
    /\ UNCHANGED <<prog, token, now, since, sigint, notice, seen, source, printed, completed,
                   whale_trades, table, placeholder, rendered, alerts, sent, top_markets, footer,
                   primaryFails, rpcCalls,
                   secondary, lastProbe, readable>>

\* lines 48-55: one pass of the for loop up to the call of print_trade
polymarket_for ==
    /\ prog = "polymarket" /\ status = "running" /\ pc = "for"
    /\ IF idx > Len(trades)
       THEN /\ pc' = "sleep"
            /\ UNCHANGED <<seen, idx, status, failure>>
       ELSE LET t == trades[idx] IN
            IF t.missing = "transactionHash"
            THEN /\ Crash("malformed")
                 /\ UNCHANGED <<seen, idx, pc>>
            ELSE IF already_seen(t.transactionHash, seen)
            THEN /\ idx' = idx + 1
                 /\ UNCHANGED <<seen, pc, status, failure>>
            ELSE /\ seen' = seen_add(t.transactionHash, seen)
                 /\ IF t.missing = "price"
                    THEN /\ Crash("malformed")
                         /\ UNCHANGED <<idx, pc>>
                    ELSE /\ IF rest_qualifies(t)
                            THEN pc' = "print" /\ idx' = idx
                            ELSE pc' = "for" /\ idx' = idx + 1
                         /\ UNCHANGED <<status, failure>>
    /\ UNCHANGED <<prog, token, now, since, seenBefore, sigint, notice, trades, source, printed, cyclePrinted,
                   unchanged, completed, whale_trades, table, placeholder, rendered,
                   alerts, sent, top_markets, footer, primaryFails, rpcCalls,
                   secondary, lastProbe, readable>>

\* lines 22-40 and 56: print_trade(t)
print_trade ==
    /\ prog = "polymarket" /\ status = "running" /\ pc = "print"
    /\ LET t == trades[idx] IN
       IF t.missing = "side"
       THEN /\ Crash("malformed")
            /\ UNCHANGED <<printed, cyclePrinted, idx, pc>>
       ELSE /\ printed' = Append(printed, t.transactionHash)
            /\ cyclePrinted' = Append(cyclePrinted, t.transactionHash)
            /\ idx' = idx + 1
            /\ pc' = "for"
            /\ UNCHANGED <<status, failure>>
    /\ UNCHANGED <<prog, token, now, since, seenBefore, sigint, notice, seen, trades, source, unchanged,
                   completed, whale_trades, table, placeholder, rendered, alerts, sent,
                   top_markets, footer, primaryFails, rpcCalls,
                   secondary, lastProbe, readable>>

\* line 58: time.sleep(POLL_INTERVAL), then the next pass of while True
polymarket_sleep ==
    /\ prog = "polymarket" /\ status = "running" /\ pc = "sleep"
    /\ pc' = "fetch"
    /\ completed' = TRUE
    /\ UNCHANGED <<prog, token, now, since, seenBefore, status, failure, sigint, notice, seen, trades, source,
                   idx, printed, cyclePrinted, unchanged, whale_trades, table,
                   placeholder, rendered, alerts, sent, top_markets, footer, primaryFails, rpcCalls,
                   secondary, lastProbe, readable>>

\* KeyboardInterrupt anywhere in polymarket.main: no handler, no stop notice
polymarket_interrupt ==
    /\ prog = "polymarket" /\ status = "running"
    /\ sigint' = TRUE
    /\ status' = "interrupted"
    /\ UNCHANGED <<prog, token, now, since, seenBefore, pc, failure, notice, seen, trades, source, idx, printed,
                   cyclePrinted, unchanged, completed, whale_trades, table, placeholder,
                   rendered, alerts, sent, top_markets, footer, primaryFails, rpcCalls,
                   secondary, lastProbe, readable>>

(***************************************************************************)
(* Subgraph records and chain logs.  `amount` is the pair [hi, lo]: the    *)
(* raw integer hi * 10^6 + lo of investmentAmount (goldsky.py, chain logs) *)
(* or the decimal hi.lo of amount (main.py).  `missing` names the key the  *)
(* record lacks; for a chain log it marks an event whose decoding or block *)
(* lookup raises.  Wallet and market label are display text only and are   *)
(* left out.                                                               *)
(***************************************************************************)
DashRecord(a, ts, m) == [amount |-> a, timestamp |-> ts, missing |-> m]

Amounts ==
    {[hi |-> 49999, lo |-> 999999], [hi |-> 50000, lo |-> 0],
     [hi |-> 100000, lo |-> 0], [hi |-> 100000, lo |-> 1]}

Timestamps == {100, 200}

WellFormed == {DashRecord(a, ts, "none") : a \in Amounts, ts \in Timestamps}

Malformed ==
    {DashRecord([hi |-> 0, lo |-> 0], 100, "amount"),
     DashRecord([hi |-> 49999, lo |-> 999999], 100, "wallet"),
     DashRecord([hi |-> 50000, lo |-> 0], 100, "wallet")}

DashRecords == WellFormed \cup Malformed

Fillers == {DashRecord([hi |-> h, lo |-> 0], 100, "none") : h \in {60000, 100000}}

\* A batch: up to MaxBatch arbitrary records, then none, one or MAX_ROWS
\* copies of one well-formed record (the upstream limits are 50 and 100
\* records).
Batches ==
    {h \o Pad(f, k) : h \in SeqsUpTo(DashRecords, MaxBatch), f \in Fillers,
                      k \in {0, 1, MAX_ROWS}}

Nodes == {[up |-> FALSE, events |-> <<>>]} \cup {[up |-> TRUE, events |-> b] : b \in Batches}

\* A normalized trade of whale_trades / whales
Trade(v, ts) == [size_usd |-> v, timestamp |-> ts]

\* sorted(xs, key=size_usd, reverse=True): stable, equal keys keep their order
RECURSIVE InsertDesc(_, _)
InsertDesc(x, r) ==
    IF r = <<>> THEN <<x>>
    ELSE IF ValGreater(x.size_usd, Head(r).size_usd) THEN <<x>> \o r
    ELSE <<Head(r)>> \o InsertDesc(x, Tail(r))

RECURSIVE SortFrom(_, _, _)
SortFrom(xs, i, acc) ==
    IF i > Len(xs) THEN acc ELSE SortFrom(xs, i + 1, InsertDesc(xs[i], acc))

\* the sort of goldsky.py line 163 / main.py line 59 left out
sorted_not(xs) == xs

sorted_desc(xs) == SortFrom(xs, 1, <<>>)

\* xs[:n]
Take(xs, n) == SubSeq(xs, 1, Min(n, Len(xs)))

(***************************************************************************)
(* goldsky.py                                                              *)
(***************************************************************************)
Dict(k, xs) == [key |-> k, items |-> xs]

\* d.get(k, [])
dict_get(d, k) == IF d.key = k THEN d.items ELSE <<>>

\* float(x) / 1e6 >= WHALE_THRESHOLD_USD (goldsky.py line 107)
is_whale_raw(t) == ValGeq(FromRaw(t.amount), WHALE_THRESHOLD_USD)

\* lines 104-113 raise for an event: the amount cannot be read, or the event
\* is whale-sized and its buyer or block cannot be read
event_raises(e) == e.missing = "amount" \/ (e.missing # "none" /\ is_whale_raw(e))

\* lines 104-113: the events of the range that the loop body handles without
\* raising and appends to whale_events, in log order (none when the node
\* cannot be reached)
readable_whales(node) ==
    IF ~node.up THEN <<>>
    ELSE LET ok(e) == ~event_raises(e) /\ is_whale_raw(e)
             kept == SelectSeq(node.events, ok)
         IN  [i \in 1..Len(kept) |-> Trade(FromRaw(kept[i].amount), kept[i].timestamp)]

\* lines 97-113 raise: the node is unreachable or an event raises
rpc_raises(node) == ~node.up \/ (\E i \in 1..Len(node.events) : event_raises(node.events[i]))

\* lines 79-119: the whole body is one try; any exception gives the empty batch
rpc_fallback_trades(node) ==
    IF rpc_raises(node)
    THEN Dict("fixedProductMarketMakers", <<>>)
    ELSE LET logs == SelectSeq(node.events, is_whale_raw)
             whale_events ==
                 [i \in 1..Len(logs) |-> Trade(FromRaw(logs[i].amount), logs[i].timestamp)]
         IN  Dict("fixedProductMarketMakers",
                  [i \in 1..Len(whale_events) |->
                      DashRecord(ToRaw(whale_events[i].size_usd),
                                 whale_events[i].timestamp, "none")])

\* fetch_from_subgraph without the try around the probe (lines 71-76): a
\* failing probe raises out of the except block before the fallback is called
fetch_probe_unguarded(primary, probe, node) ==
    IF primary.ok
    THEN [result |-> primary.result, raised |-> FALSE, failed |-> FALSE,
          fallback |-> FALSE, swallowed |-> FALSE]
    ELSE IF probe = "ok"
    THEN [result |-> rpc_fallback_trades(node), raised |-> FALSE, failed |-> TRUE,
          fallback |-> TRUE, swallowed |-> FALSE]
    ELSE [result |-> Dict("error", <<>>), raised |-> TRUE, failed |-> TRUE,
          fallback |-> FALSE, swallowed |-> FALSE]

\* lines 61-77.  primary: the outcome of client.execute(query); probe: the
\* outcome of the introspection query ("ok", "fail", or "interrupt" for a
\* KeyboardInterrupt, which the bare except swallows); node: the RPC node.
fetch_from_subgraph(primary, probe, node) ==
    IF primary.ok
    THEN [result |-> primary.result, raised |-> FALSE, failed |-> FALSE,
          fallback |-> FALSE, swallowed |-> FALSE]
    ELSE [result |-> rpc_fallback_trades(node), raised |-> FALSE, failed |-> TRUE,
          fallback |-> TRUE, swallowed |-> (probe = "interrupt")]

Probes == {"ok", "fail", "interrupt"}

\* lines 121-125: the POST is made only with a token that is set
telegram_enabled(tok) == tok # "" /\ tok # "your_bot_token"

\* lines 146-153 raise for a record that lacks a key
trade_raises(t) == t.missing # "none"

\* lines 145-153
normalize_trades(batch) ==
    [i \in 1..Len(batch) |-> Trade(FromRaw(batch[i].amount), batch[i].timestamp)]

\* line 175
goldsky_alerts(t) == ValGeq(t.size_usd, ALERT_THRESHOLD_USD)

\* the display loop with the alert of lines 174-178 ahead of the test of
\* line 164: a trade past the last row adds no row and is still alerted
RECURSIVE display_loop_alert_first(_, _, _, _, _)
display_loop_alert_first(xs, i, st, tok, failAt) ==
    IF i > Len(xs) THEN st
    ELSE LET t == xs[i]
             st1 == IF Len(st.rows) >= MAX_ROWS THEN st
                    ELSE [st EXCEPT !.rows = Append(@, t)]
         IN  IF ~goldsky_alerts(t) THEN display_loop_alert_first(xs, i + 1, st1, tok, failAt)
             ELSE IF ~telegram_enabled(tok)
             THEN display_loop_alert_first(xs, i + 1, [st1 EXCEPT !.alerts = Append(@, t)],
                                           tok, failAt)
             ELSE LET st2 == [st1 EXCEPT !.sent = Append(@, t)]
                  IN  IF Len(st2.sent) = failAt
                      THEN [st2 EXCEPT !.raised = TRUE]
                      ELSE display_loop_alert_first(xs, i + 1,
                                                    [st2 EXCEPT !.alerts = Append(@, t)],
                                                    tok, failAt)

\* lines 162-178: the display loop over the sorted trades from position i.
\* st = [rows, alerts, sent, raised]; failAt is the Telegram POST that raises
\* (0: none does).
RECURSIVE display_loop(_, _, _, _, _)
display_loop(xs, i, st, tok, failAt) ==
    IF i > Len(xs) \/ Len(st.rows) >= MAX_ROWS THEN st
    ELSE LET t == xs[i]
             st1 == [st EXCEPT !.rows = Append(@, t)]
         IN  IF ~goldsky_alerts(t) THEN display_loop(xs, i + 1, st1, tok, failAt)
             ELSE IF ~telegram_enabled(tok)
             THEN display_loop(xs, i + 1, [st1 EXCEPT !.alerts = Append(@, t)], tok, failAt)
             ELSE LET st2 == [st1 EXCEPT !.sent = Append(@, t)]
                  IN  IF Len(st2.sent) = failAt
                      THEN [st2 EXCEPT !.raised = TRUE]
                      ELSE display_loop(xs, i + 1, [st2 EXCEPT !.alerts = Append(@, t)],
                                        tok, failAt)

NodeDown == [up |-> FALSE, events |-> <<>>]

QueryFailed == [ok |-> FALSE, result |-> Dict("error", <<>>)]

MarketAnswers ==
    {[ok |-> TRUE, result |-> Dict("markets", m)] : m \in {<<>>, <<"market">>}}
    \cup {QueryFailed}

TradeAnswers ==
    {[ok |-> TRUE, result |-> Dict("fixedProductMarketMakers", b)] : b \in Batches}
    \cup {QueryFailed}

\* what one call of fetch_from_subgraph leaves behind it
Routed(r, probe, node) ==
    /\ primaryFails' = primaryFails + (IF r.failed THEN 1 ELSE 0)
    /\ rpcCalls' = rpcCalls + (IF r.fallback THEN 1 ELSE 0)
    /\ secondary' = (IF ~r.fallback THEN secondary
                     ELSE IF rpc_raises(node) THEN "failed" ELSE "ok")
    /\ lastProbe' = (IF r.failed THEN probe ELSE lastProbe)
    /\ sigint' = (sigint \/ r.swallowed)

\* lines 136-137: markets_result = fetch_from_subgraph(MARKETS_QUERY)
goldsky_fetch_markets ==
    /\ prog = "goldsky" /\ status = "running" /\ pc = "markets"
    /\ \E primary \in MarketAnswers :
       \E probe \in (IF primary.ok THEN {"ok"} ELSE Probes) :
       \E node \in (IF primary.ok THEN {NodeDown} ELSE Nodes) :
          LET r == fetch_from_subgraph(primary, probe, node) IN
          /\ Routed(r, probe, node)
          /\ IF r.raised
             THEN /\ Crash("upstream")
                  /\ UNCHANGED <<top_markets, pc>>
             ELSE /\ top_markets' = (dict_get(r.result, "markets") # <<>>)
                  /\ pc' = "trades"
                  /\ status' = status
                  /\ failure' = (IF r.failed THEN "upstream" ELSE failure)
    /\ UNCHANGED <<cfgVars, restVars, notice, trades, source, readable, whale_trades,
                   table, placeholder, rendered, alerts, sent, footer>>

\* lines 140-142: trades_list of the trade query
goldsky_fetch_trades ==
    /\ prog = "goldsky" /\ status = "running" /\ pc = "trades"
    /\ \E primary \in TradeAnswers :
       \E probe \in (IF primary.ok THEN {"ok"} ELSE Probes) :
       \E node \in (IF primary.ok THEN {NodeDown} ELSE Nodes) :
          LET r == fetch_from_subgraph(primary, probe, node) IN
          /\ Routed(r, probe, node)
          /\ IF r.raised
             THEN /\ Crash("upstream")
                  /\ UNCHANGED <<trades, source, readable, pc>>
             ELSE /\ trades' = dict_get(r.result, "fixedProductMarketMakers")
                  /\ source' = (IF r.fallback THEN "rpc" ELSE "subgraph")
                  /\ readable' = (IF r.fallback THEN readable_whales(node) ELSE <<>>)
                  /\ pc' = "process"
                  /\ status' = status
                  /\ failure' = (IF r.failed THEN "upstream" ELSE failure)
    /\ UNCHANGED <<cfgVars, restVars, dashVars, notice>>

\* lines 144-187: the rest of update_display, and line 189 handing it to Live
goldsky_update_display ==
    /\ prog = "goldsky" /\ status = "running" /\ pc = "process"
    /\ IF \E i \in 1..Len(trades) : trade_raises(trades[i])
       THEN /\ Crash("malformed")
            /\ UNCHANGED <<pc, dashVars>>
       ELSE \E failAt \in (IF telegram_enabled(token) THEN 0..MaxFail ELSE {0}) :
            LET wt == normalize_trades(trades)
                st == display_loop(sorted_desc(wt), 1,
                                   [rows |-> <<>>, alerts |-> <<>>, sent |-> <<>>,
                                    raised |-> FALSE], token, failAt)
            IN  /\ whale_trades' = wt
                /\ alerts' = st.alerts
                /\ sent' = st.sent
                /\ IF st.raised
                   THEN /\ Crash("sink")
                        /\ UNCHANGED <<pc, table, placeholder, rendered, footer>>
                   ELSE /\ table' = st.rows
                        /\ placeholder' = (wt = <<>>)
                        /\ footer' = top_markets
                        /\ rendered' = TRUE
                        /\ pc' = "loop"
                        /\ UNCHANGED <<status, failure>>
                /\ UNCHANGED top_markets
    /\ UNCHANGED <<cfgVars, restVars, routeVars, sigint, notice, trades>>

\* line 191: while True
goldsky_loop ==
    /\ prog = "goldsky" /\ status = "running" /\ pc = "loop"
    /\ pc' = "sleep"
    /\ UNCHANGED <<cfgVars, restVars, dashVars, routeVars, status, failure, sigint,
                   notice, trades>>

\* line 192: asyncio.sleep(1) builds a coroutine that is never awaited
goldsky_sleep ==
    /\ prog = "goldsky" /\ status = "running" /\ pc = "sleep"
    /\ pc' = "loop"
    /\ UNCHANGED <<cfgVars, restVars, dashVars, routeVars, status, failure, sigint,
                   notice, trades>>

\* KeyboardInterrupt: caught at lines 193-194 inside the loop only
goldsky_interrupt ==
    /\ prog = "goldsky" /\ status = "running"
    /\ sigint' = TRUE
    /\ IF pc \in {"loop", "sleep"}
       THEN notice' = TRUE /\ status' = "stopped"
       ELSE notice' = notice /\ status' = "interrupted"
    /\ UNCHANGED <<cfgVars, restVars, dashVars, routeVars, pc, failure, trades>>

(***************************************************************************)
(* main.py                                                                 *)
(***************************************************************************)
\* line 51: float(trade['amount'])
from_decimal(a) == Val(a.hi, a.lo)

\* line 52
is_whale(t) == ValGeq(from_decimal(t.amount), WHALE_THRESHOLD_USD)

\* lines 51-58 raise for a record: no amount, or whale-sized and another key
\* is missing
whale_raises(t) == t.missing = "amount" \/ (t.missing # "none" /\ is_whale(t))

\* lines 49-58
whales_of(batch) ==
    LET kept == SelectSeq(batch, is_whale)
    IN  [i \in 1..Len(kept) |-> Trade(from_decimal(kept[i].amount), kept[i].timestamp)]

\* line 76
main_alerts(t) == ValGt(t.size_usd, MAIN_ALERT_USD)

\* lines 42-59 and 65: trades = fetch_whale_trades(market_filter, since);
\* client.execute may raise and nothing handles it.
main_fetch_whale_trades ==
    /\ prog = "main" /\ status = "running" /\ pc = "update"
    /\ \/ /\ Crash("upstream")
          /\ UNCHANGED <<pc, trades, source, whale_trades>>
       \/ \E batch \in Batches :
             IF \E i \in 1..Len(batch) : whale_raises(batch[i])
             THEN /\ Crash("malformed")
                  /\ UNCHANGED <<pc, trades, source, whale_trades>>
             ELSE /\ whale_trades' = whales_of(batch)
                  /\ trades' = Take(sorted_desc(whales_of(batch)), MAX_ROWS)
                  /\ source' = "subgraph"
                  /\ pc' = "table"
                  /\ UNCHANGED <<status, failure>>
    /\ UNCHANGED <<cfgVars, restVars, sigint, notice, table, placeholder, rendered,
                   alerts, sent, top_markets, footer, primaryFails, rpcCalls,
                   secondary, lastProbe, readable>>

\* lines 66-80, and line 82 handing the table to Live
main_update_display ==
    /\ prog = "main" /\ status = "running" /\ pc = "table"
    /\ table' = trades
    /\ alerts' = SelectSeq(trades, main_alerts)
    /\ placeholder' = FALSE
    /\ rendered' = TRUE
    /\ pc' = "loop"
    /\ UNCHANGED <<cfgVars, restVars, routeVars, status, failure, sigint, notice,
                   trades, whale_trades, sent, top_markets, footer>>

\* line 84: while True
main_loop ==
    /\ prog = "main" /\ status = "running" /\ pc = "loop"
    /\ pc' = "sleep"
    /\ UNCHANGED <<cfgVars, restVars, dashVars, routeVars, status, failure, sigint,
                   notice, trades>>

\* line 85: time.sleep(1)
main_sleep ==
    /\ prog = "main" /\ status = "running" /\ pc = "sleep"
    /\ pc' = "loop"
    /\ UNCHANGED <<cfgVars, restVars, dashVars, routeVars, status, failure, sigint,
                   notice, trades>>

\* KeyboardInterrupt: caught at lines 86-87 inside the loop only
main_interrupt ==
    /\ prog = "main" /\ status = "running"
    /\ sigint' = TRUE
    /\ IF pc \in {"loop", "sleep"}
       THEN notice' = TRUE /\ status' = "stopped"
       ELSE notice' = notice /\ status' = "interrupted"
    /\ UNCHANGED <<cfgVars, restVars, dashVars, routeVars, pc, failure, trades>>

(***************************************************************************)
(* The programs.                                                           *)
(***************************************************************************)
Tokens == {"your_bot_token", "", "123456:token"}

\* Readings of time.time(), in epoch seconds.  A present-day reading times
\* 1000 does not fit TLC's integers; the model's clock starts near the epoch.
Clock == {GOLDSKY_LOOKBACK + 100}

\* goldsky.py line 128 and main.py line 62: the default of `since`,
\* int((time.time() - lookback) * 1000)
default_since(p, t) ==
    IF p = "goldsky" THEN (t - GOLDSKY_LOOKBACK) * 1000
    ELSE IF p = "main" THEN (t - MAIN_LOOKBACK) * 1000
    ELSE 0

\* the where clause of the trade query for a record with timestamp ts:
\* timestamp_gte in goldsky.py line 32, timestamp_gt in main.py line 27
query_matches(p, ts, s) == IF p = "goldsky" THEN ts >= s ELSE ts > s

\* where each program starts: polymarket.py line 46, main.py line 82,
\* goldsky.py line 189
StartPc(p) == IF p = "polymarket" THEN "fetch" ELSE IF p = "main" THEN "update" ELSE "markets"

Init ==
    /\ prog \in {"polymarket", "main", "goldsky"}
    /\ token \in (IF prog = "goldsky" THEN Tokens ELSE {"your_bot_token"})
    /\ now \in Clock
    /\ since = default_since(prog, now)
    /\ pc = StartPc(prog)
    /\ status = "running"
    /\ failure = "none"
    /\ sigint = FALSE
    /\ notice = FALSE
    /\ seen = {}
    /\ seenBefore = {}
    /\ trades = <<>>
    /\ source = "none"
    /\ idx = 1
    /\ printed = <<>>
    /\ cyclePrinted = <<>>
    /\ unchanged = FALSE
    /\ completed = FALSE
    /\ whale_trades = <<>>
    /\ table = <<>>
    /\ placeholder = FALSE
    /\ rendered = FALSE
    /\ alerts = <<>>
    /\ sent = <<>>
    /\ top_markets = FALSE
    /\ footer = FALSE
    /\ primaryFails = 0
    /\ rpcCalls = 0
    /\ secondary = "unused"
    /\ lastProbe = "none"
    /\ readable = <<>>

Step ==
    \/ fetch_trades
    \/ polymarket_for
    \/ print_trade
    \/ polymarket_sleep
    \/ main_fetch_whale_trades
    \/ main_update_display
    \/ main_loop
    \/ main_sleep
    \/ goldsky_fetch_markets
    \/ goldsky_fetch_trades
    \/ goldsky_update_display
    \/ goldsky_loop
    \/ goldsky_sleep

Interrupt ==
    \/ polymarket_interrupt
    \/ main_interrupt
    \/ goldsky_interrupt

Next == Step \/ Interrupt

Spec == Init /\ [][Next]_vars

\* goldsky_fetch_trades is enabled exactly at AtTrades, goldsky_update_display
\* exactly at AtProcess, and every step from there leaves the position: weak
\* fairness of each is that the program is not there for ever.
AtTrades == prog = "goldsky" /\ status = "running" /\ pc = "trades"

AtProcess == prog = "goldsky" /\ status = "running" /\ pc = "process"

\* The interpreter keeps running the program: a step that can be taken is
\* taken.  Nothing obliges the user to press Ctrl-C.
Fairness ==
    /\ WF_vars(fetch_trades) /\ WF_vars(polymarket_for) /\ WF_vars(print_trade)
    /\ WF_vars(polymarket_sleep)
    /\ WF_vars(main_fetch_whale_trades) /\ WF_vars(main_update_display)
    /\ WF_vars(main_loop) /\ WF_vars(main_sleep)
    /\ WF_vars(goldsky_fetch_markets) /\ []<>~AtTrades /\ []<>~AtProcess
    /\ WF_vars(goldsky_loop) /\ WF_vars(goldsky_sleep)

FairSpec == Spec /\ Fairness

(***************************************************************************)
(* Properties.                                                             *)
(***************************************************************************)
Dashboard == prog \in {"main", "goldsky"}

Occurrences(xs, x) == Cardinality({i \in 1..Len(xs) : xs[i] = x})

Range(xs) == {xs[i] : i \in 1..Len(xs)}

\* C1: in polymarket.main a transactionHash is handed to print_trade at most
\* once in the life of the process, whether it repeats inside one batch or
\* comes back in a later cycle; a cycle whose batch equals the previous
\* cycle's batch prints nothing.
C1_EmittedAtMostOnce ==
    /\ \A tx \in Range(printed) : Occurrences(printed, tx) = 1
    /\ unchanged => cyclePrinted = <<>>

\* a completed cycle on the batch of the cycle before it, the batch holding
\* the same qualifying transactionHash twice, which has been printed once
C1_Witness ==
    /\ prog = "polymarket" /\ pc = "sleep" /\ unchanged
    /\ Len(trades) = 2
    /\ trades[1].transactionHash = trades[2].transactionHash
    /\ rest_qualifies(trades[1]) /\ rest_qualifies(trades[2])
    /\ printed = <<trades[1].transactionHash>>

\* C2: every row of a rendered table has usd_notional >= the whale threshold,
\* on every fetch path and for any batch the upstream returns.
C2_DisplayedAreWhales ==
    (Dashboard /\ rendered) =>
        \A i \in 1..Len(table) : ValGeq(table[i].size_usd, WHALE_THRESHOLD_USD)

\* C3: the rows of a rendered table are in non-increasing order of
\* usd_notional, are at most MAX_ROWS, are as many as the retained trades
\* allow, are retained trades, and no retained trade left out is strictly
\* larger than a displayed one.
C3_RankedTopRows ==
    (Dashboard /\ rendered) =>
        /\ \A i \in 1..Len(table) : \A j \in i..Len(table) :
              ~ValGreater(table[j].size_usd, table[i].size_usd)
        /\ Len(table) = Min(MAX_ROWS, Len(whale_trades))
        /\ \A t \in Range(table) : Occurrences(table, t) <= Occurrences(whale_trades, t)
        /\ \A t \in Range(whale_trades) :
              Occurrences(table, t) < Occurrences(whale_trades, t) =>
                  \A d \in Range(table) : ~ValGreater(t.size_usd, d.size_usd)

\* more trades retained than rows, of different sizes, so that ranking and
\* truncation both decide what is shown
C3_Witness ==
    /\ Dashboard /\ rendered
    /\ Len(whale_trades) > MAX_ROWS
    /\ Len(table) = MAX_ROWS
    /\ ValGreater(table[1].size_usd, table[MAX_ROWS].size_usd)
    /\ \E t \in Range(whale_trades) :
          /\ Occurrences(table, t) < Occurrences(whale_trades, t)
          /\ ValGreater(table[1].size_usd, t.size_usd)
    /\ ~ValGreater(whale_trades[1].size_usd, whale_trades[2].size_usd)
    /\ whale_trades[1] # table[1]

\* C4: in goldsky.fetch_from_subgraph every failed subgraph query is followed
\* by a call of rpc_fallback_trades, whatever the probe did; no failure of
\* the query, the probe or the node ends the program; and the batch is empty
\* when the node fails too.
C4_RouterFallsBack ==
    prog = "goldsky" =>
        /\ rpcCalls = primaryFails
        /\ status = "crashed" => failure \in {"malformed", "sink"}
        /\ (pc = "process" /\ source = "rpc" /\ secondary = "failed") => trades = <<>>

\* both queries failed, the probe of the second failed and so did the node:
\* update_display goes on with an empty batch
C4_Witness ==
    /\ prog = "goldsky" /\ status = "running" /\ pc = "process"
    /\ primaryFails = 2 /\ rpcCalls = 2
    /\ lastProbe = "fail" /\ secondary = "failed"
    /\ source = "rpc" /\ trades = <<>>

\* C5: a Telegram POST that raises for one qualifying trade does not stop
\* the dispatch for the qualifying trades after it, and the cycle finishes.
C5_SinkFailureContained ==
    failure = "sink" =>
        /\ status = "running"
        /\ rendered
        /\ Len(sent) = Len(SelectSeq(Take(sorted_desc(whale_trades), MAX_ROWS), goldsky_alerts))

\* C6: an upstream fetch failure never ends a program: the cycle yields an
\* empty result and the program goes on.
C6_FetchFailureContained ==
    failure = "upstream" => status # "crashed"

\* C7: while the program runs, every interval wait is followed by a new
\* cycle, which starts with a fresh upstream fetch.
C7_LoopRefetches ==
    [](pc = "sleep" => <>(pc \in {"fetch", "update", "markets"} \/ status # "running"))

\* C8: the alerts of a rendered cycle are the displayed trades with
\* usd_notional >= the alert threshold, one alert each, in display order.
C8_AlertsMatchQualifying ==
    (Dashboard /\ rendered) =>
        alerts = SelectSeq(table, LAMBDA t : ValGeq(t.size_usd, ALERT_THRESHOLD_USD))

\* C9: once a KeyboardInterrupt has been delivered the program has printed
\* the stop notice and stopped, without an uncaught exception.
C9_InterruptStopsCleanly ==
    sigint => (notice /\ status = "stopped")

\* C10: a record that lacks a required key is skipped by itself: the cycle
\* does not abort on it.
C10_MalformedRecordSkipped ==
    status = "crashed" => failure # "malformed"

\* C11: in rpc_fallback_trades an event whose decoding or block lookup fails
\* is skipped by itself: the batch returned holds every other event of the
\* scanned range whose amount meets the whale threshold, in log order.
C11_OnlyFailingEventSkipped ==
    (prog = "goldsky" /\ pc = "process" /\ source = "rpc") =>
        normalize_trades(trades) = readable

NewestFirst(xs) == \A i \in 1..Len(xs) : \A j \in i..Len(xs) : xs[i].timestamp >= xs[j].timestamp

LogOrder(xs) == \A i \in 1..Len(xs) : \A j \in i..Len(xs) : xs[i].timestamp <= xs[j].timestamp

\* the batch came in the order its source gives it: the subgraph answers
\* newest first (orderBy timestamp, desc), the chain logs come oldest first
SourceOrdered ==
    /\ source = "subgraph" => NewestFirst(whale_trades)
    /\ source = "rpc" => LogOrder(whale_trades)

\* C12: of two displayed trades with equal usd_notional the one with the
\* larger timestamp comes first, on the subgraph path and on the chain-log
\* path.
C12_TiesNewestFirst ==
    (Dashboard /\ rendered /\ SourceOrdered) =>
        \A i \in 1..Len(table) : \A j \in i..Len(table) :
            table[i].size_usd = table[j].size_usd =>
                table[i].timestamp >= table[j].timestamp

\* C13: in both dashboards the table rendered for a cycle holds the
\* placeholder row, and nothing else, exactly when the cycle's trade set is
\* empty, the cycle in which the subgraph and the RPC fallback both failed
\* included.
C13_PlaceholderOnEmpty ==
    (Dashboard /\ rendered) =>
        /\ placeholder <=> whale_trades = <<>>
        /\ placeholder => table = <<>>
        /\ (source = "rpc" /\ secondary = "failed") => placeholder

\* record i of the batch in hand is the first the process sees of its
\* transactionHash
FirstSeenAt(i) ==
    /\ trades[i].transactionHash \notin seenBefore
    /\ \A j \in 1..(i - 1) : trades[j].transactionHash # trades[i].transactionHash

\* price * size >= 7500, price in thousandths
MeetsThreshold(t) == t.price * t.size >= THRESHOLD_USD * 1000

\* C14: of the records the running cycle has passed, those handed to
\* print_trade are, in batch order, exactly the records first seen in this
\* cycle with price * size >= 7500, the value 7500 included.
C14_EmittedIffAtThreshold ==
    (prog = "polymarket" /\ status = "running" /\ pc \in {"for", "sleep"}) =>
        LET passed == [i \in 1..(idx - 1) |-> i]
            due == SelectSeq(passed, LAMBDA i : FirstSeenAt(i) /\ MeetsThreshold(trades[i]))
        IN  cyclePrinted = [k \in 1..Len(due) |-> trades[due[k]].transactionHash]

\* a completed cycle whose batch held a record of notional 7499.5, not
\* printed, and after it a new record of price 0.50 and size 20000, printed
C14_Witness ==
    /\ prog = "polymarket" /\ status = "running" /\ pc = "sleep"
    /\ Len(trades) = 2
    /\ trades[1].price = 500 /\ trades[1].size = 14999
    /\ trades[2].price = 500 /\ trades[2].size = 20000
    /\ FirstSeenAt(1) /\ FirstSeenAt(2)
    /\ cyclePrinted = <<trades[2].transactionHash>>

\* the raw amount 60000000000
Raw60000 == [hi |-> 60000, lo |-> 0]

\* C15: goldsky.update_display gives every record of the batch the
\* usd_notional raw / 10^6; rpc_fallback_trades keeps the events whose
\* raw / 10^6 is at least 50000; a record of raw amount 60000000000 has
\* usd_notional 60000, is shown when the table has room for every trade, and
\* is alerted exactly when the alert threshold is at most 60000.
C15_SixDecimalScale ==
    (prog = "goldsky" /\ rendered) =>
        /\ Len(whale_trades) = Len(trades)
        /\ \A i \in 1..Len(trades) :
              /\ whale_trades[i].size_usd.usd = trades[i].amount.hi
              /\ whale_trades[i].size_usd.micro = trades[i].amount.lo
              /\ source = "rpc" => trades[i].amount.hi >= WHALE_THRESHOLD_USD
              /\ trades[i].amount = Raw60000 =>
                    /\ whale_trades[i].size_usd = [usd |-> 60000, micro |-> 0]
                    /\ Len(trades) <= MAX_ROWS => whale_trades[i] \in Range(table)
                    /\ whale_trades[i] \in Range(alerts) <=> ALERT_THRESHOLD_USD <= 60000

\* a rendered cycle whose batch holds the raw amount 60000000000 next to a
\* trade that is alerted
C15_Witness ==
    /\ prog = "goldsky" /\ rendered /\ status = "running"
    /\ \E i \in 1..Len(trades) :
          /\ trades[i].amount = Raw60000
          /\ whale_trades[i] \in Range(table)
          /\ whale_trades[i] \notin Range(alerts)
    /\ alerts # <<>>

\* the default lookback window of a dashboard, in seconds
Lookback(p) == IF p = "goldsky" THEN GOLDSKY_LOOKBACK ELSE MAIN_LOOKBACK

\* the trade query has been sent with `since` and has been answered
Queried ==
    /\ status = "running"
    /\ (prog = "goldsky" /\ pc = "process") \/ (prog = "main" /\ pc = "table")

\* C16: `since` is in epoch seconds like the timestamps of the trades: the
\* where clause of the trade query accepts every timestamp of the default
\* lookback window (24 hours in goldsky.py, one hour in main.py).
C16_SinceInSeconds ==
    Queried => \A ts \in (now - Lookback(prog))..now : query_matches(prog, ts, since)

\* the transactionHash values of a batch
BatchIds(batch) == {batch[i].transactionHash : i \in 1..Len(batch)}

\* C17: in polymarket.main no step removes an id from seen; only the
\* deduplication step of the running cycle changes seen, and only by adding
\* ids of the batch in hand (fetch_trades and print_trade leave it alone);
\* when a cycle completes, seen holds the transactionHash of every record
\* of its batch, the records below the threshold included.
C17_SeenSetGrows ==
    [][/\ seen \subseteq seen'
       /\ seen' # seen =>
             /\ prog = "polymarket" /\ pc = "for"
             /\ trades' = trades
             /\ (seen' \ seen) \subseteq BatchIds(trades)
       /\ (prog = "polymarket" /\ status' = "running" /\ pc' = "sleep") =>
             BatchIds(trades') \subseteq seen']_vars

\* a later cycle has completed: seen held an id before it, and the cycle
\* added the id of a record below the threshold, which was not printed
C17_Witness ==
    /\ prog = "polymarket" /\ status = "running" /\ pc = "sleep"
    /\ seenBefore # {}
    /\ \E i \in 1..Len(trades) :
          /\ ~MeetsThreshold(trades[i])
          /\ trades[i].transactionHash \in seen \ seenBefore
          /\ trades[i].transactionHash \notin Range(printed)

\* C18: in goldsky.update_display every alert line and every Telegram call
\* of a rendered cycle is for a trade that has a row of the table, one alert
\* per row at most: a cycle alerts at most MAX_ROWS times, and a trade at or
\* above the alert threshold that has no row has no alert.
C18_AlertsAreRows ==
    (prog = "goldsky" /\ rendered) =>
        /\ \A t \in Range(alerts) : Occurrences(alerts, t) <= Occurrences(table, t)
        /\ \A t \in Range(sent) : Occurrences(sent, t) <= Occurrences(table, t)
        /\ Len(alerts) <= MAX_ROWS
        /\ Len(sent) <= MAX_ROWS

\* more than MAX_ROWS trades at or above the alert threshold, MAX_ROWS of
\* them shown and alerted
C18_Witness ==
    /\ prog = "goldsky" /\ rendered
    /\ Len(SelectSeq(whale_trades, goldsky_alerts)) > MAX_ROWS
    /\ Len(table) = MAX_ROWS
    /\ Len(alerts) = MAX_ROWS

=============================================================================
